---- MODULE Spec2Model ----
(***************************************************************************)
(* A model of main.py of PDF-Processor: the page-range parser              *)
(* (parse_page_range), the grid compositor (merge_images) and the job      *)
(* pipeline (process_pdf) started by the GUI's start_process.              *)
(*                                                                         *)
(* Python strings are sequences of one-character strings.  The two CJK     *)
(* characters of the keyword on line 15 and of the output suffix on line   *)
(* 173 are written as their code points ("U+5168" is one character).       *)
(***************************************************************************)
EXTENDS Integers, Sequences, FiniteSets, TLC

VARIABLES parser, compositor, job

vars == <<parser, compositor, job>>

(***************************************************************************)
(* Bounds of the model.                                                    *)
(***************************************************************************)
\* most comma-separated tokens in an enumerated page-range expression
MaxTokens == 3
\* largest page count of an enumerated parser input
MaxPages == 4
\* most images handed to the compositor
MaxImages == 5
\* largest rows / cols value handed to the compositor
MaxGrid == 2
\* most pages the external renderer returns in a job
MaxRender == 3

(***************************************************************************)
(* Python's str and int primitives, as main.py uses them.                  *)
(***************************************************************************)
ValueError == "ValueError"
IndexError == "IndexError"

\* the characters str.strip() and int() treat as whitespace
IsSpace(c) == c \in {" "}

Digits == <<"0", "1", "2", "3", "4", "5", "6", "7", "8", "9">>

IsDigit(c) == \E i \in 1..Len(Digits) : Digits[i] = c

DigitVal(c) == (CHOOSE i \in 1..Len(Digits) : Digits[i] = c) - 1

RECURSIVE lstrip(_)
lstrip(s) == IF s # <<>> /\ IsSpace(Head(s)) THEN lstrip(Tail(s)) ELSE s

RECURSIVE rstrip(_)
rstrip(s) ==
    IF s # <<>> /\ IsSpace(s[Len(s)]) THEN rstrip(SubSeq(s, 1, Len(s) - 1)) ELSE s

\* str.strip()
strip(s) == rstrip(lstrip(s))

\* c in s
Contains(s, c) == \E i \in 1..Len(s) : s[i] = c

\* index of the first occurrence of the character c in s, 0 when absent
FirstIndex(s, c) ==
    IF Contains(s, c) THEN CHOOSE i \in 1..Len(s) : s[i] = c /\ \A j \in 1..(i - 1) : s[j] # c
    ELSE 0

\* s.split(c) for a one-character separator: always at least one part
RECURSIVE split(_, _)
split(s, c) ==
    LET i == FirstIndex(s, c)
    IN  IF i = 0 THEN <<s>>
        ELSE <<SubSeq(s, 1, i - 1)>> \o split(SubSeq(s, i + 1, Len(s)), c)

\* s.split(c, 1): cut at the first separator only
split1(s, c) ==
    LET i == FirstIndex(s, c)
    IN  IF i = 0 THEN <<s>>
        ELSE <<SubSeq(s, 1, i - 1), SubSeq(s, i + 1, Len(s))>>

\* the digits-and-underscores body int() accepts: digits, single underscores
\* only between two digits
IsIntBody(b) ==
    /\ b # <<>>
    /\ \A i \in 1..Len(b) : IsDigit(b[i]) \/ b[i] = "_"
    /\ IsDigit(b[1]) /\ IsDigit(b[Len(b)])
    /\ \A i \in 1..(Len(b) - 1) : ~(b[i] = "_" /\ b[i + 1] = "_")

RECURSIVE DecimalValue(_)
DecimalValue(b) ==
    IF b = <<>> THEN 0
    ELSE LET c == b[Len(b)]
             rest == DecimalValue(SubSeq(b, 1, Len(b) - 1))
         IN  IF c = "_" THEN rest ELSE 10 * rest + DigitVal(c)

\* int(s): surrounding whitespace is ignored, one optional sign, then the body;
\* anything else raises ValueError (exc); val is the integer returned
int(s) ==
    LET t == strip(s)
        signed == t # <<>> /\ t[1] \in {"+", "-"}
        body == IF signed THEN Tail(t) ELSE t
    IN  IF ~IsIntBody(body) THEN [exc |-> ValueError, val |-> 0]
        ELSE IF signed /\ t[1] = "-" THEN [exc |-> "none", val |-> 0 - DecimalValue(body)]
        ELSE [exc |-> "none", val |-> DecimalValue(body)]

max(a, b) == IF a >= b THEN a ELSE b
min(a, b) == IF a <= b THEN a ELSE b

\* list(range(a, b + 1))
RangeList(a, b) == [i \in 1..max(0, b - a + 1) |-> a + i - 1]

\* sorted(list(S)) of a set of integers
RECURSIVE sorted(_)
sorted(S) ==
    IF S = {} THEN <<>>
    ELSE LET m == CHOOSE x \in S : \A y \in S : x <= y
         IN  <<m>> \o sorted(S \ {m})


(***************************************************************************)
(* parse_page_range (lines 10-42).                                         *)
(***************************************************************************)
\* the keyword of line 15
ALL_KEYWORD == <<"U+5168", "U+90E8">>

\* line 15: the expression selects every page
is_all(page_range_str) ==
    strip(page_range_str) = <<>> \/ strip(page_range_str) = ALL_KEYWORD

\* line 16 with range(1, total_pages): the last page left out
all_pages_short(total_pages) == RangeList(1, total_pages - 1)

\* line 16
all_pages(total_pages) == RangeList(1, total_pages)

\* lines 27-30 with range(start, end): the last page of the range left out
range_without_end(start, end, total_pages) ==
    LET s == max(1, start)
        e == min(total_pages, end)
    IN  IF s <= e THEN s..(e - 1) ELSE {}

\* lines 27-30: the pages of a range token with parsed ends
range_pages(start, end, total_pages) ==
    LET s == max(1, start)
        e == min(total_pages, end)
    IN  IF s <= e THEN s..e ELSE {}

\* lines 37-38 without the bounds test
single_unchecked(page, total_pages) == {page}

\* lines 37-38: the page of a single-integer token
single_pages(page, total_pages) ==
    IF 1 <= page /\ page <= total_pages THEN {page} ELSE {}

\* lines 26-30: the body of the first try; ValueError when an int() raises
range_token(part, total_pages) ==
    LET ends == split1(part, "-")
        start == int(ends[1])
        end == int(ends[2])
    IN  IF start.exc # "none" THEN [exc |-> start.exc, pages |-> {}]
        ELSE IF end.exc # "none" THEN [exc |-> end.exc, pages |-> {}]
        ELSE [exc |-> "none", pages |-> range_pages(start.val, end.val, total_pages)]

\* lines 36-38: the body of the second try
single_token(part, total_pages) ==
    LET page == int(part)
    IN  IF page.exc # "none" THEN [exc |-> page.exc, pages |-> {}]
        ELSE [exc |-> "none", pages |-> single_pages(page.val, total_pages)]

\* a handler that lets the exception through
catch_nothing(outcome) == outcome

\* lines 31-32 and 39-40: except ValueError: continue
except_ValueError(outcome) ==
    IF outcome.exc = ValueError THEN [exc |-> "none", pages |-> {}] ELSE outcome

\* lines 22-40: one iteration of the loop over parts
parse_part(raw, total_pages) ==
    LET part == strip(raw)
    IN  except_ValueError(IF Contains(part, "-") THEN range_token(part, total_pages)
                          ELSE single_token(part, total_pages))

RECURSIVE parse_parts(_, _, _)
parse_parts(parts, pages, total_pages) ==
    IF parts = <<>> THEN [exc |-> "none", pages |-> pages]
    ELSE LET o == parse_part(Head(parts), total_pages)
         IN  IF o.exc # "none" THEN [exc |-> o.exc, pages |-> pages]
             ELSE parse_parts(Tail(parts), pages \cup o.pages, total_pages)

\* the whole function: the list it returns (ret), or the exception it raises (exc)
parse_page_range(page_range_str, total_pages) ==
    IF is_all(page_range_str) THEN [exc |-> "none", ret |-> all_pages(total_pages)]
    ELSE LET o == parse_parts(split(page_range_str, ","), {}, total_pages)
         IN  IF o.exc # "none" THEN [exc |-> o.exc, ret |-> <<>>]
             ELSE [exc |-> "none", ret |-> sorted(o.pages)]

(***************************************************************************)
(* The inputs of the parser specification.                                 *)
(***************************************************************************)
Tokens ==
    { <<"1">>, <<"3">>, <<"1", "-", "2">>, <<"2", "-", "9">>, <<"3", "-", "1">>,
      <<"a">>, <<>>, <<" ", "2", " ">>, <<"1", "-", "2", "-", "3">>,
      <<"+", "0", "_", "4">>, <<"3", "-">> }

RECURSIVE Joined(_)
Joined(n) ==
    IF n = 1 THEN Tokens
    ELSE {e \o <<",">> \o t : e \in Joined(n - 1), t \in Tokens}

Expressions == UNION {Joined(n) : n \in 1..MaxTokens}

ASCII_ALL == <<"a", "l", "l">>

\* the expressions of the documented examples, with their page counts
Examples ==
    { <<<<"1", "-", "3", ",", "6", ",", "8", "-", "1", "0">>, 12>>,
      <<<<"5", "-", "2">>, 10>>,
      <<<<"1", ",", "a", "b", "c", ",", "3">>, 10>>,
      <<<<"-", "2">>, 3>>,
      <<<<"1", "-", "-", "3">>, 3>>,
      <<<<"1", "-", "2", ",", "2", "-", "3", ",", "4", ",", "4">>, 3>> }

\* the keyword, a blank expression and the word "all"
Keywords == {ALL_KEYWORD, <<" ">>, ASCII_ALL}

ParserInputs == ((Expressions \cup Keywords) \X (0..MaxPages)) \cup Examples

ParserIdle ==
    [pc |-> "idle", page_range_str |-> <<>>, total_pages |-> 0,
     parts |-> <<>>, pages |-> {}, ret |-> <<>>, exc |-> "none"]

CompositorIdle ==
    [pc |-> "idle", images |-> <<>>, rows |-> 0, cols |-> 0, i |-> 0,
     merged |-> <<>>, exc |-> "none"]
JobIdle ==
    [pc |-> "idle", params |-> <<>>, font_loads |-> FALSE, exc |-> "none",
     rows |-> 0, cols |-> 0, output_format |-> <<>>, rendered |-> FALSE,
     total_pages |-> 0, numbering_pages |-> <<>>, processed_images |-> <<>>,
     progress |-> <<>>, merge_calls |-> <<>>, merged_images |-> <<>>,
     output_path |-> <<>>, saved |-> 0, written |-> <<>>, done_calls |-> <<>>,
     errors |-> <<>>, trace |-> <<>>]

\* a call parse_page_range(page_range_str, total_pages)
ParserInit ==
    /\ \E in \in ParserInputs :
           parser = [pc |-> "call", page_range_str |-> in[1], total_pages |-> in[2],
                     parts |-> <<>>, pages |-> {}, ret |-> <<>>, exc |-> "none"]
    /\ compositor = CompositorIdle
    /\ job = JobIdle

\* lines 15-16: the expression selects every page
ParseAll ==
    /\ parser.pc = "call"
    /\ is_all(parser.page_range_str)
    /\ parser' = [parser EXCEPT !.pc = "returned", !.ret = all_pages(parser.total_pages)]
    /\ UNCHANGED <<compositor, job>>

\* lines 18-19
ParseSplit ==
    /\ parser.pc = "call"
    /\ ~is_all(parser.page_range_str)
    /\ parser' = [parser EXCEPT !.pc = "loop", !.parts = split(parser.page_range_str, ",")]
    /\ UNCHANGED <<compositor, job>>

\* lines 21-40: one part
ParsePart ==
    /\ parser.pc = "loop"
    /\ parser.parts # <<>>
    /\ LET o == parse_part(Head(parser.parts), parser.total_pages)
       IN  parser' = [parser EXCEPT !.pc = IF o.exc = "none" THEN "loop" ELSE "raised",
                                    !.exc = o.exc,
                                    !.parts = Tail(parser.parts),
                                    !.pages = parser.pages \cup o.pages]
    /\ UNCHANGED <<compositor, job>>

\* line 42
ParseReturn ==
    /\ parser.pc = "loop"
    /\ parser.parts = <<>>
    /\ parser' = [parser EXCEPT !.pc = "returned", !.ret = sorted(parser.pages)]
    /\ UNCHANGED <<compositor, job>>

ParserNext == ParseAll \/ ParseSplit \/ ParsePart \/ ParseReturn

SpecParse == ParserInit /\ [][ParserNext]_vars

(***************************************************************************)
(* merge_images (lines 78-98).  An image is a record with its size (w, h); *)
(* a canvas records its own size and what was pasted on it, where, in the  *)
(* order of the paste calls.                                               *)
(***************************************************************************)
\* line 83: range(0, len(images), step) raises ValueError for a step of zero
range_raises(step) == step = 0

\* line 83: the start indices range(0, n, step) yields (none for a negative step)
range_starts(n, step) == IF step > 0 THEN {i \in 0..(n - 1) : i % step = 0} ELSE {}

\* line 84: images[i:i + size], i counted from 0, i + size within or past the end
slice(images, i, size) == SubSeq(images, i + 1, min(Len(images), i + size))

\* line 90: Image.new raises ValueError for a negative width or height
new_raises(width, height) == width < 0 \/ height < 0

\* lines 94-96 with the row and the column exchanged
paste_at_transposed(idx, cols, w, h) == <<(idx \div cols) * w, (idx % cols) * h>>

\* lines 94-96: where the image at index idx of its group is pasted
paste_at(idx, cols, w, h) == <<(idx % cols) * w, (idx \div cols) * h>>

\* lines 84-97: one iteration of the loop over groups; the canvas built (sheet),
\* or the exception raised
merge_group(images, i, rows, cols) ==
    LET group == slice(images, i, rows * cols)
        w == group[1].w
        h == group[1].h
    IN  IF new_raises(cols * w, rows * h) THEN [exc |-> ValueError, sheet |-> <<>>]
        ELSE [exc |-> "none",
              sheet |-> [size |-> <<cols * w, rows * h>>,
                         pasted |-> [k \in 1..Len(group) |->
                                        [img |-> group[k],
                                         at |-> paste_at(k - 1, cols, w, h)]]]]

RECURSIVE merge_from(_, _, _, _, _)
merge_from(images, i, rows, cols, merged) ==
    IF i \notin range_starts(Len(images), rows * cols) THEN [exc |-> "none", ret |-> merged]
    ELSE LET g == merge_group(images, i, rows, cols)
         IN  IF g.exc # "none" THEN [exc |-> g.exc, ret |-> <<>>]
             ELSE merge_from(images, i + rows * cols, rows, cols, Append(merged, g.sheet))

\* the whole function: the list it returns (ret), or the exception it raises (exc)
merge_images(images, rows, cols) ==
    IF range_raises(rows * cols) THEN [exc |-> ValueError, ret |-> <<>>]
    ELSE merge_from(images, 0, rows, cols, <<>>)

(***************************************************************************)
(* The compositor specification: a call merge_images(images, rows, cols)   *)
(* with images of one size, as resize_to_a4 produces them.                 *)
(***************************************************************************)
ImageSizes == {<<2, 3>>, <<3, 2>>}

ImageList(n, size) == [k \in 1..n |-> [id |-> k, w |-> size[1], h |-> size[2]]]

CompositorInit ==
    /\ \E n \in 0..MaxImages, size \in ImageSizes, rows \in (0 - 1)..MaxGrid, cols \in (0 - 1)..MaxGrid :
           compositor = [pc |-> "call", images |-> ImageList(n, size), rows |-> rows,
                         cols |-> cols, i |-> 0, merged |-> <<>>, exc |-> "none"]
    /\ parser = ParserIdle
    /\ job = JobIdle

\* line 83: evaluating range() with a step of zero raises
MergeRangeRaises ==
    /\ compositor.pc = "call"
    /\ range_raises(compositor.rows * compositor.cols)
    /\ compositor' = [compositor EXCEPT !.pc = "raised", !.exc = ValueError]
    /\ UNCHANGED <<parser, job>>

\* lines 82-83: the loop is entered
MergeEnter ==
    /\ compositor.pc = "call"
    /\ ~range_raises(compositor.rows * compositor.cols)
    /\ compositor' = [compositor EXCEPT !.pc = "loop"]
    /\ UNCHANGED <<parser, job>>

\* lines 84-97: one group
MergeGroup ==
    /\ compositor.pc = "loop"
    /\ compositor.i \in range_starts(Len(compositor.images), compositor.rows * compositor.cols)
    /\ LET g == merge_group(compositor.images, compositor.i, compositor.rows, compositor.cols)
       IN  compositor' =
               IF g.exc # "none" THEN [compositor EXCEPT !.pc = "raised", !.exc = g.exc]
               ELSE [compositor EXCEPT !.i = compositor.i + compositor.rows * compositor.cols,
                                       !.merged = Append(compositor.merged, g.sheet)]
    /\ UNCHANGED <<parser, job>>

\* line 98
MergeReturn ==
    /\ compositor.pc = "loop"
    /\ compositor.i \notin range_starts(Len(compositor.images), compositor.rows * compositor.cols)
    /\ compositor' = [compositor EXCEPT !.pc = "returned"]
    /\ UNCHANGED <<parser, job>>

CompositorNext == MergeRangeRaises \/ MergeEnter \/ MergeGroup \/ MergeReturn

SpecMerge == CompositorInit /\ [][CompositorNext]_vars

(***************************************************************************)
(* More of Python's str: replace, lower and the decimal form of an int.    *)
(***************************************************************************)
StartsWith(s, old) == Len(old) <= Len(s) /\ SubSeq(s, 1, Len(old)) = old

\* s.replace(old, new), old not empty: every occurrence, left to right
RECURSIVE replace(_, _, _)
replace(s, old, new) ==
    IF s = <<>> THEN <<>>
    ELSE IF StartsWith(s, old) THEN new \o replace(SubSeq(s, Len(old) + 1, Len(s)), old, new)
    ELSE <<Head(s)>> \o replace(Tail(s), old, new)

UpperCase == <<"A", "B", "C", "D", "E", "F", "G", "H", "I", "J", "K", "L", "M",
               "N", "O", "P", "Q", "R", "S", "T", "U", "V", "W", "X", "Y", "Z">>
LowerCase == <<"a", "b", "c", "d", "e", "f", "g", "h", "i", "j", "k", "l", "m",
               "n", "o", "p", "q", "r", "s", "t", "u", "v", "w", "x", "y", "z">>

\* s.lower()
lower(s) ==
    [i \in 1..Len(s) |->
        IF \E k \in 1..Len(UpperCase) : UpperCase[k] = s[i]
        THEN LowerCase[CHOOSE k \in 1..Len(UpperCase) : UpperCase[k] = s[i]]
        ELSE s[i]]

\* str(n) of an integer n >= 0, as an f-string formats it
RECURSIVE str(_)
str(n) == IF n < 10 THEN <<Digits[n + 1]>> ELSE str(n \div 10) \o <<Digits[(n % 10) + 1]>>

(***************************************************************************)
(* process_pdf (lines 101-190) run by start_process (lines 236-257), which *)
(* hands it both callbacks.                                                *)
(***************************************************************************)
DOT_PDF == <<".", "p", "d", "f">>
DOT_JPG == <<".", "j", "p", "g">>
PDF == <<"p", "d", "f">>

\* line 173: "_" U+8F93 U+51FA "." and the format
output_suffix(output_format) == <<"_", "U+8F93", "U+51FA", ".">> \o output_format

\* line 173
output_path_of(input_pdf, output_format) ==
    replace(input_pdf, DOT_PDF, output_suffix(output_format))

\* line 182: the file of sheet i (from 0)
img_path_of(output_path, i) == replace(output_path, DOT_JPG, <<"_">> \o str(i + 1) \o DOT_JPG)

\* the files on disk when the job starts: os.path.isfile (line 242) holds of these
ExistingFiles == {<<"a">> \o DOT_PDF, <<"a", ".", "P", "D", "F">>}

isfile(path) == path \in ExistingFiles

\* line 133 never raising
render_never_empty(total_pages) == FALSE

\* line 133: not images
render_is_empty(total_pages) == total_pages = 0

\* line 139 with one step too few
total_steps_short(total_pages) == total_pages + 1

\* line 139
total_steps(total_pages) == total_pages + 2

\* line 167: (idx + 1) / total_steps * 100, as the fraction num/den
progress_value(idx, steps) == [num |-> (idx + 1) * 100, den |-> steps]

\* line 160 with the page number itself
numbering_index_absolute(numbering_pages, current_page) == current_page

\* line 160: numbering_pages.index(current_page) + 1, index() counting from 0
numbering_index(numbering_pages, current_page) ==
    (CHOOSE i \in 1..Len(numbering_pages) :
        /\ numbering_pages[i] = current_page
        /\ \A j \in 1..(i - 1) : numbering_pages[j] # current_page) - 1 + 1

\* lines 206, 211: the GUI's initial font size and dpi, left as they are
DefaultFontsize == 65
DefaultDpi == 300

\* line 50: the A4 canvas of resize_to_a4, portrait (the GUI's initial direction)
a4_px(dpi) == <<(827 * dpi) \div 100, (1169 * dpi) \div 100>>

\* lines 152-157: the font drawn with; the built-in one when truetype() raises
font_of(font_loads, fontsize, dpi) ==
    IF font_loads THEN [face |-> "truetype", size |-> (fontsize * dpi) \div 72]
    ELSE [face |-> "default", size |-> 0]

\* lines 144-163: the image appended for page current_page
processed_page(current_page, numbering_pages, prefix, font_loads) ==
    [page |-> current_page,
     w |-> a4_px(DefaultDpi)[1],
     h |-> a4_px(DefaultDpi)[2],
     stamps |-> IF \E i \in 1..Len(numbering_pages) : numbering_pages[i] = current_page
                THEN <<[text |-> prefix \o <<".">> \o str(numbering_index(numbering_pages, current_page)),
                        font |-> font_of(font_loads, DefaultFontsize, DefaultDpi)]>>
                ELSE <<>>]

Event(ev, n) == [ev |-> ev, n |-> n]

(***************************************************************************)
(* The job specification: the form as the user left it, then one click on  *)
(* the start button.                                                       *)
(***************************************************************************)
PathTexts == ExistingFiles \cup {<<>>}
GridTexts == {<<"1">>, <<"2">>, <<"0">>, <<"-", "1">>, <<"x">>}
RangeTexts == {ALL_KEYWORD, <<"2", ",", "4">>, <<"a">>, <<"3", ",", "1", "-", "2">>}
FormatTexts == {<<"P", "D", "F">>, <<"J", "P", "G">>}
\* what the renderer may return: up to MaxRender pages, or the five of the
\* labelling example
RenderCounts == (0..MaxRender) \cup {5}

JobInit ==
    /\ \E path \in PathTexts, rows \in GridTexts, cols \in GridTexts,
          range \in RangeTexts, format \in FormatTexts, loads \in BOOLEAN :
           job = [JobIdle EXCEPT
                     !.pc = "gui",
                     !.font_loads = loads,
                     !.params = [pdf_path |-> path, rows |-> rows, cols |-> cols,
                                 prefix |-> <<"X">>, page_range |-> range,
                                 output_format |-> format]]
    /\ parser = ParserIdle
    /\ compositor = CompositorIdle

\* lines 242-244: the path is no file; the click starts nothing
StartRejected ==
    /\ job.pc = "gui"
    /\ ~isfile(job.params.pdf_path)
    /\ job' = [job EXCEPT !.pc = "rejected", !.errors = Append(job.errors, "invalid file")]
    /\ UNCHANGED <<parser, compositor>>

\* lines 242-257: the thread running process_pdf is started
StartProcess ==
    /\ job.pc = "gui"
    /\ isfile(job.params.pdf_path)
    /\ job' = [job EXCEPT !.pc = "params"]
    /\ UNCHANGED <<parser, compositor>>

\* lines 106-127: the parameters are read; int() of rows or cols may raise
ReadParams ==
    /\ job.pc = "params"
    /\ LET rows == int(job.params.rows)
           cols == int(job.params.cols)
       IN  job' = IF rows.exc # "none" THEN [job EXCEPT !.pc = "except", !.exc = rows.exc]
                  ELSE IF cols.exc # "none" THEN [job EXCEPT !.pc = "except", !.exc = cols.exc]
                  ELSE [job EXCEPT !.pc = "render", !.rows = rows.val, !.cols = cols.val,
                                   !.output_format = lower(job.params.output_format)]
    /\ UNCHANGED <<parser, compositor>>

\* lines 130-131: the renderer returns the pages, or raises
Render ==
    /\ job.pc = "render"
    /\ \/ \E n \in RenderCounts :
             job' = [job EXCEPT !.pc = "rendered", !.rendered = TRUE, !.total_pages = n,
                                !.trace = Append(job.trace, Event("render", n))]
       \/ job' = [job EXCEPT !.pc = "except", !.exc = "RenderError"]
    /\ UNCHANGED <<parser, compositor>>

\* lines 133-140: no page raises; otherwise the page range is parsed
ParseRange ==
    /\ job.pc = "rendered"
    /\ LET r == parse_page_range(job.params.page_range, job.total_pages)
       IN  job' = IF render_is_empty(job.total_pages)
                  THEN [job EXCEPT !.pc = "except", !.exc = ValueError]
                  ELSE IF r.exc # "none" THEN [job EXCEPT !.pc = "except", !.exc = r.exc]
                  ELSE [job EXCEPT !.pc = "pages", !.numbering_pages = r.ret,
                                   !.trace = Append(job.trace, Event("parse", 0))]
    /\ UNCHANGED <<parser, compositor>>

\* lines 143-167: one page is resized, stamped if selected, appended, and the
\* progress is reported; or resizing or drawing raises
ProcessPage ==
    /\ job.pc = "pages"
    /\ Len(job.processed_images) < job.total_pages
    /\ LET idx == Len(job.processed_images)
       IN  \/ job' = [job EXCEPT
                         !.processed_images =
                             Append(job.processed_images,
                                    processed_page(idx + 1, job.numbering_pages,
                                                   job.params.prefix, job.font_loads)),
                         !.progress =
                             Append(job.progress,
                                    progress_value(idx, total_steps(job.total_pages))),
                         !.trace = job.trace \o <<Event("page", idx + 1), Event("progress", idx + 1)>>]
           \/ job' = [job EXCEPT !.pc = "except", !.exc = "ImageError"]
    /\ UNCHANGED <<parser, compositor>>

\* lines 170-173: the sheets are composed and the output path is formed
Merge ==
    /\ job.pc = "pages"
    /\ Len(job.processed_images) = job.total_pages
    /\ LET m == merge_images(job.processed_images, job.rows, job.cols)
           called == [job EXCEPT !.merge_calls = Append(job.merge_calls, <<job.rows, job.cols>>),
                                 !.trace = Append(job.trace, Event("merge", 0))]
       IN  job' = IF m.exc # "none" THEN [called EXCEPT !.pc = "except", !.exc = m.exc]
                  ELSE [called EXCEPT
                           !.pc = "save",
                           !.merged_images = m.ret,
                           !.output_path = output_path_of(job.params.pdf_path, job.output_format)]
    /\ UNCHANGED <<parser, compositor>>

\* lines 176-178: all sheets go to one file; no sheet raises IndexError; save()
\* may raise before or after it has opened the file
SavePdf ==
    /\ job.pc = "save"
    /\ job.output_format = PDF
    /\ LET opened == [job EXCEPT !.written = Append(job.written, job.output_path),
                                 !.trace = Append(job.trace, Event("write", 0))]
       IN  IF job.merged_images = <<>>
           THEN job' = [job EXCEPT !.pc = "except", !.exc = IndexError]
           ELSE \/ job' = [opened EXCEPT !.pc = "saved"]
                \/ job' = [opened EXCEPT !.pc = "except", !.exc = "OSError"]
                \/ job' = [job EXCEPT !.pc = "except", !.exc = "OSError"]
    /\ UNCHANGED <<parser, compositor>>

\* lines 181-183: one sheet goes to its own file; save() may raise
SaveJpg ==
    /\ job.pc = "save"
    /\ job.output_format # PDF
    /\ job.saved < Len(job.merged_images)
    /\ LET opened == [job EXCEPT !.written = Append(job.written, img_path_of(job.output_path, job.saved)),
                                 !.trace = Append(job.trace, Event("write", job.saved + 1))]
       IN  \/ job' = [opened EXCEPT !.saved = job.saved + 1]
           \/ job' = [opened EXCEPT !.pc = "except", !.exc = "OSError"]
           \/ job' = [job EXCEPT !.pc = "except", !.exc = "OSError"]
    /\ UNCHANGED <<parser, compositor>>

\* line 181: the loop over the sheets is over
SaveJpgEnd ==
    /\ job.pc = "save"
    /\ job.output_format # PDF
    /\ job.saved = Len(job.merged_images)
    /\ job' = [job EXCEPT !.pc = "saved"]
    /\ UNCHANGED <<parser, compositor>>

\* lines 186-187
DoneCallback ==
    /\ job.pc = "saved"
    /\ job' = [job EXCEPT !.pc = "end", !.done_calls = Append(job.done_calls, job.output_path),
                          !.trace = Append(job.trace, Event("done", 0))]
    /\ UNCHANGED <<parser, compositor>>

\* lines 189-190: the error dialog
Except ==
    /\ job.pc = "except"
    /\ job' = [job EXCEPT !.pc = "end", !.errors = Append(job.errors, job.exc),
                          !.trace = Append(job.trace, Event("error", 0))]
    /\ UNCHANGED <<parser, compositor>>

JobNext ==
    \/ StartRejected \/ StartProcess \/ ReadParams \/ Render \/ ParseRange
    \/ ProcessPage \/ Merge \/ SavePdf \/ SaveJpg \/ SaveJpgEnd \/ DoneCallback \/ Except

SpecJob == JobInit /\ [][JobNext]_vars

(***************************************************************************)
(* Properties of parse_page_range, checked under SpecParse.                *)
(***************************************************************************)
Returned == parser.pc = "returned"

Elements(list) == {list[i] : i \in 1..Len(list)}

StrictlyAscending(list) == \A i \in 1..(Len(list) - 1) : list[i] < list[i + 1]

\* the comma-separated tokens of an expression, blanks around each removed
TokensOf(expression) ==
    LET parts == split(expression, ",") IN [i \in 1..Len(parts) |-> strip(parts[i])]

\* token is start-end with both ends integers
WellFormedRange(token) ==
    /\ Contains(token, "-")
    /\ \A k \in 1..2 : int(split1(token, "-")[k]).exc = "none"

\* token is one integer
WellFormedSingle(token) == ~Contains(token, "-") /\ int(token).exc = "none"

\* the pages of 1..total_pages a token stands for
TokenSelects(token, p) ==
    \/ /\ WellFormedRange(token)
       /\ int(split1(token, "-")[1]).val <= p
       /\ p <= int(split1(token, "-")[2]).val
    \/ /\ WellFormedSingle(token)
       /\ p = int(token).val

UnionOfTokens(expression, total_pages) ==
    {p \in 1..total_pages :
        \E i \in 1..Len(TokensOf(expression)) : TokenSelects(TokensOf(expression)[i], p)}

Example1 == <<"1", "-", "3", ",", "6", ",", "8", "-", "1", "0">>
Example2 == <<"5", "-", "2">>
Example3 == <<"1", ",", "a", "b", "c", ",", "3">>

\* C1: for every expression and every total_pages >= 0 the list returned is
\* strictly ascending (hence without repeats) and each element is in
\* 1..total_pages.
C1_AscendingWithinBounds ==
    Returned =>
        /\ StrictlyAscending(parser.ret)
        /\ Elements(parser.ret) \subseteq 1..parser.total_pages

\* overlapping ranges and a repeated page, given out of order
C1_Witness ==
    /\ Returned
    /\ parser.page_range_str = <<"3">> \o <<",">> \o <<"1", "-", "2">> \o <<",">> \o <<"2", "-", "9">>
    /\ parser.total_pages = 4
    /\ parser.ret = <<1, 2, 3, 4>>

\* C2 as stated: for an expression that is neither the empty string nor the
\* keyword, the list returned holds exactly the union of the pages of its
\* tokens.
C2_UnionUnlessEmptyOrKeyword ==
    (Returned /\ parser.page_range_str # <<>> /\ parser.page_range_str # ALL_KEYWORD) =>
        Elements(parser.ret) = UnionOfTokens(parser.page_range_str, parser.total_pages)

\* C2 amended: for an expression that, with the blanks around it removed, is
\* neither empty nor the keyword, the list returned holds exactly the union of
\* the pages of its tokens: max(1,start)..min(total_pages,end) for a range
\* token, p within 1..total_pages for a single integer, nothing otherwise.
C2_UnionUnlessBlankOrKeyword ==
    /\ (Returned /\ strip(parser.page_range_str) \notin {<<>>, ALL_KEYWORD}) =>
          /\ Elements(parser.ret) = UnionOfTokens(parser.page_range_str, parser.total_pages)
          /\ Len(parser.ret) = Cardinality(Elements(parser.ret))
    /\ (Returned /\ parser.page_range_str = Example1 /\ parser.total_pages = 12) =>
          parser.ret = <<1, 2, 3, 6, 8, 9, 10>>
    /\ (Returned /\ parser.page_range_str = Example2 /\ parser.total_pages = 10) =>
          parser.ret = <<>>

C2_Witness ==
    /\ Returned
    /\ parser.page_range_str = Example1
    /\ parser.total_pages = 12
    /\ parser.ret = <<1, 2, 3, 6, 8, 9, 10>>

\* C3 as stated: parse("all", N) returns [1..N] for N >= 1.
C3_AsciiAllSelectsEveryPage ==
    (Returned /\ parser.page_range_str = ASCII_ALL /\ parser.total_pages >= 1) =>
        parser.ret = [i \in 1..parser.total_pages |-> i]

\* C3 amended: the empty expression and the keyword of line 15 (U+5168 U+90E8)
\* select every page: the list returned is [1..total_pages].
C3_KeywordSelectsEveryPage ==
    (Returned /\ parser.page_range_str \in {<<>>, ALL_KEYWORD}) =>
        parser.ret = [i \in 1..parser.total_pages |-> i]

C3_Witness ==
    /\ Returned
    /\ parser.page_range_str = ALL_KEYWORD
    /\ parser.total_pages = MaxPages
    /\ Len(parser.ret) = MaxPages

\* C4: no call raises, and every well-formed token of an expression
\* contributes its pages to the list returned, whatever malformed tokens
\* stand before or after it.
C4_NeverRaisesGoodTokensKept ==
    /\ parser.pc # "raised"
    /\ parser.exc = "none"
    /\ Returned =>
          \A i \in 1..Len(TokensOf(parser.page_range_str)) :
              \A p \in 1..parser.total_pages :
                  TokenSelects(TokensOf(parser.page_range_str)[i], p)
                      => p \in Elements(parser.ret)
    /\ (Returned /\ parser.page_range_str = Example3 /\ parser.total_pages = 10) =>
          parser.ret = <<1, 3>>

\* a malformed token between two well-formed ones
C4_Witness ==
    /\ Returned
    /\ parser.page_range_str = <<"1", ",", "a", ",", "3">>
    /\ parser.total_pages = 4
    /\ parser.ret = <<1, 3>>

(***************************************************************************)
(* Properties of merge_images, checked under SpecMerge.                    *)
(***************************************************************************)
Merged == compositor.pc = "returned"

CeilDiv(n, d) == (n + d - 1) \div d

\* C6: for rows >= 1 and cols >= 1 the image at input index i (from 0) is on
\* sheet i div (rows*cols), pasted at cell (row j div cols, col j mod cols),
\* j = i mod (rows*cols); the sheets hold each image once, in input order;
\* ceil(n / (rows*cols)) sheets are returned and none is empty.
C6_RowMajorChunks ==
    (Merged /\ compositor.rows >= 1 /\ compositor.cols >= 1) =>
        LET n == Len(compositor.images)
            size == compositor.rows * compositor.cols
            sheets == compositor.merged
        IN  /\ Len(sheets) = CeilDiv(n, size)
            /\ \A s \in 1..Len(sheets) :
                  /\ Len(sheets[s].pasted) >= 1
                  /\ Len(sheets[s].pasted) = IF s * size <= n THEN size ELSE n - (s - 1) * size
            /\ \A i \in 0..(n - 1) :
                  LET j == i % size
                      img == compositor.images[i + 1]
                      put == sheets[(i \div size) + 1].pasted[j + 1]
                  IN  /\ put.img = img
                      /\ put.at = <<(j % compositor.cols) * img.w, (j \div compositor.cols) * img.h>>

\* five images on a 2x2 grid: a full sheet, then one image at cell (0,0)
C6_Witness ==
    /\ Merged
    /\ Len(compositor.images) = 5 /\ compositor.rows = 2 /\ compositor.cols = 2
    /\ Len(compositor.merged) = 2
    /\ Len(compositor.merged[1].pasted) = 4
    /\ Len(compositor.merged[2].pasted) = 1
    /\ compositor.merged[2].pasted[1].img.id = 5
    /\ compositor.merged[2].pasted[1].at = <<0, 0>>

(***************************************************************************)
(* Properties of process_pdf, checked under SpecJob.                       *)
(***************************************************************************)
\* the selection the job's page range stands for, once the pages are rendered
Selection == parse_page_range(job.params.page_range, job.total_pages).ret

\* the 1-based position of page p in the ascending selection
Ordinal(p) == Cardinality({q \in Elements(Selection) : q <= p})

Label(k) == job.params.prefix \o <<".">> \o str(k)

RECURSIVE StampTexts(_)
StampTexts(images) ==
    IF images = <<>> THEN <<>>
    ELSE [i \in 1..Len(Head(images).stamps) |-> Head(images).stamps[i].text]
             \o StampTexts(Tail(images))

EventsAt(ev) == {i \in 1..Len(job.trace) : job.trace[i].ev = ev}

\* C5: page p is stamped if and only if p is in the selection parsed from
\* page_range; its label is prefix "." k, k the 1-based position of p in the
\* ascending selection; once all pages are processed the labels in page order
\* are prefix.1, prefix.2, ..., prefix.|selection|.
C5_LabelIsOrdinalInSelection ==
    /\ \A p \in 1..Len(job.processed_images) :
          LET img == job.processed_images[p]
          IN  /\ img.page = p
              /\ (img.stamps # <<>>) <=> (p \in Elements(Selection))
              /\ p \in Elements(Selection) =>
                    /\ Len(img.stamps) = 1
                    /\ img.stamps[1].text = Label(Ordinal(p))
    /\ (job.pc \in {"save", "saved"} \/ job.done_calls # <<>>) =>
          /\ Len(job.processed_images) = job.total_pages
          /\ StampTexts(job.processed_images) = [k \in 1..Len(Selection) |-> Label(k)]

\* page_range "2,4" over 5 pages with prefix X
C5_Witness ==
    /\ job.pc = "end" /\ job.done_calls # <<>>
    /\ job.params.page_range = <<"2", ",", "4">> /\ job.total_pages = 5
    /\ job.processed_images[1].stamps = <<>>
    /\ job.processed_images[2].stamps[1].text = <<"X", ".", "1">>
    /\ job.processed_images[3].stamps = <<>>
    /\ job.processed_images[4].stamps[1].text = <<"X", ".", "2">>
    /\ job.processed_images[5].stamps = <<>>

\* C7: a run ends either with every step done and the completion callback
\* called once with the output path, or with one error reported, no step
\* after it and no completion callback; a render of zero pages is reported
\* before the page range is parsed, a page is processed or a file is written.
C7_OneOutcome ==
    /\ Len(job.errors) <= 1 /\ Len(job.done_calls) <= 1
    /\ job.errors # <<>> => job.done_calls = <<>>
    /\ \A i \in EventsAt("error") : i = Len(job.trace)
    /\ \A i \in EventsAt("done") : i = Len(job.trace)
    /\ job.pc = "end" =>
          \/ /\ job.errors = <<>>
             /\ job.done_calls = <<job.output_path>>
             /\ job.total_pages >= 1
             /\ Len(job.processed_images) = job.total_pages
             /\ EventsAt("render") # {} /\ EventsAt("parse") # {} /\ EventsAt("merge") # {}
             /\ job.output_format = PDF => EventsAt("write") # {}
             /\ job.output_format # PDF => Cardinality(EventsAt("write")) = Len(job.merged_images)
          \/ /\ Len(job.errors) = 1
             /\ job.done_calls = <<>>
    /\ (job.rendered /\ job.total_pages = 0) =>
          /\ EventsAt("parse") = {}
          /\ job.processed_images = <<>> /\ job.progress = <<>>
          /\ job.merge_calls = <<>>
          /\ job.written = <<>>
          /\ job.pc = "end" => Len(job.errors) = 1

\* a render of zero pages, reported
C7_Witness ==
    /\ job.pc = "end"
    /\ job.rendered /\ job.total_pages = 0
    /\ job.errors = <<ValueError>>
    /\ job.trace = <<Event("render", 0), Event("error", 0)>>

\* C8: with rows <= 0 or cols <= 0 the job is rejected before merge_images is
\* called: merge_images is never called with a non-positive rows or cols, and
\* such a job never reaches the completion callback.
C8_GridRejectedBeforeCompositor ==
    /\ \A i \in 1..Len(job.merge_calls) :
          job.merge_calls[i][1] >= 1 /\ job.merge_calls[i][2] >= 1
    /\ (job.pc \notin {"gui", "rejected", "params"} /\ (job.rows <= 0 \/ job.cols <= 0)) =>
          job.done_calls = <<>>

\* C9: the progress callback is called once after each page, in page order,
\* with k / (total_pages + 2) * 100 after the k-th page; the values increase
\* strictly; every call comes before the compositing and the completion
\* callback.
C9_ProgressPerPage ==
    /\ Len(job.progress) = Len(job.processed_images)
    /\ \A k \in 1..Len(job.progress) :
          /\ job.progress[k].den > 0
          /\ job.progress[k].num * (job.total_pages + 2) = k * 100 * job.progress[k].den
    /\ \A k \in 1..(Len(job.progress) - 1) :
          job.progress[k].num * job.progress[k + 1].den
              < job.progress[k + 1].num * job.progress[k].den
    /\ \A i \in EventsAt("progress") :
          /\ i > 1 /\ job.trace[i - 1] = Event("page", job.trace[i].n)
          /\ job.trace[i].n = Cardinality({j \in EventsAt("progress") : j <= i})
          /\ \A j \in EventsAt("merge") \cup EventsAt("done") : i < j
    /\ \A i \in EventsAt("page") : i < Len(job.trace) /\ job.trace[i + 1].ev = "progress"
    /\ EventsAt("merge") # {} => Len(job.progress) = job.total_pages

C9_Witness ==
    /\ job.pc = "end" /\ job.done_calls # <<>>
    /\ job.total_pages = 3
    /\ Len(job.progress) = 3
    /\ job.progress[3] = [num |-> 300, den |-> 5]

\* C10: no file the job writes is the input file.
C10_InputNeverWritten ==
    \A i \in 1..Len(job.written) : job.written[i] # job.params.pdf_path

====
